---- MODULE Spec2Model ----
(***************************************************************************)
(* Model of the OmniVision image-matching pipeline (src/app/main.py,       *)
(* src/app/ai_engine.py).                                                  *)
(*                                                                         *)
(* One messaging event is one run of process_incoming_message, which calls *)
(* handle_image_search for the first image attachment.  The remote         *)
(* collaborators (Supabase tables, HTTP fetches, Gemini, the Graph API)    *)
(* are the environment: every outcome they can produce is a choice.        *)
(*                                                                         *)
(*   Spec      events are handled one at a time; every step of             *)
(*             process_incoming_message and handle_image_search is taken.  *)
(*   SpecGate  events overlap (several worker processes sharing the users  *)
(*             table); the steps of process_incoming_message are taken one *)
(*             store operation at a time and handle_image_search, which    *)
(*             touches no users row, is reduced to its call.               *)
(*   FairSpec  Spec, with every started event running on to its end.       *)
(*   SpecWebhook  one POST /webhook request; the tasks it enqueued run     *)
(*             after the response, one after the other, with the steps of  *)
(*             SpecGate.                                                   *)
(*   SpecVerify  one call of verify_visual_match on any short response     *)
(*             text, or on a failure of the call.                          *)
(***************************************************************************)
EXTENDS Integers, Sequences, FiniteSets, TLC

\* ------------------------------------------------------------------ bounds
NumEvents == 3
MaxBalance == 2
MaxAttachments == 2
MaxMatches == 2
MaxTextLen == 3
MaxEntries == 2
MaxMessaging == 2

\* ------------------------------------------------------- program constants
RejectBelow == 65
SoftBelow == 85
EmbeddingDim == 768
StatusReceived == 200
StatusOnError == 200

Events == 1..NumEvents

VARIABLES
    shopRow,    \* the row of table "shops" for the known page
    balance,    \* users.credits of the owner of the known page
    balance0,   \* users.credits when the first of the events in flight began
    pc,         \* per event: the statement the event is at
    atts,       \* per event: message["attachments"], a sequence of types
    shop,       \* per event: shop_config
    credits,    \* per event: the local variable credits
    img,        \* per event: index of the attachment handed on, 0 if none
    matches,    \* per event: rpc_response.data, product ids in rank order
    score,      \* per event: verification_score
    calls,      \* per event: the store, fetch and AI calls made, in order
    outbox,     \* per event: the Graph API sends made, in order
    request,    \* the body of the POST /webhook request
    tasks,      \* background_tasks: the messaging events with a task, in order
    started,    \* number of those tasks that have been started
    ack,        \* status of the response to the request, 0 before it
    response,   \* what the comparison call of verify_visual_match does
    verdict     \* what verify_visual_match returned, NotReturned before

vars == <<shopRow, balance, balance0, pc, atts, shop, credits, img, matches,
          score, calls, outbox, request, tasks, started, ack, response,
          verdict>>

hookVars == <<request, tasks, started, ack>>
probeVars == <<response, verdict>>

searchVars == <<matches, score, outbox>>

\* ------------------------------------------------------------ data shapes
\* A msg_found template is the sequence of the placeholders it references.
DefaultTemplate == <<"name", "price", "confidence">>
Templates == {DefaultTemplate, <<"name">>, <<"name", "stock">>}

\* owner: "none" = owner_id is null, "missing" = owner_id has no users row,
\* "user" = owner_id names a users row.
ShopConfigs ==
    [found : {TRUE}, owner : {"none", "missing", "user"}, tokenOk : BOOLEAN,
     msgFound : Templates, sendImage : BOOLEAN]

NoShop ==
    [found |-> FALSE, owner |-> "none", tokenOk |-> FALSE,
     msgFound |-> DefaultTemplate, sendImage |-> FALSE]

RECURSIVE SeqsUpTo(_, _)
SeqsUpTo(S, n) ==
    IF n = 0 THEN {<<>>}
    ELSE LET shorter == SeqsUpTo(S, n - 1)
         IN shorter \cup {Append(s, x) : s \in shorter, x \in S}

AttachmentTypes == {"image", "file"}
AttachmentLists == SeqsUpTo(AttachmentTypes, MaxAttachments)
GateAttachmentLists == SeqsUpTo(AttachmentTypes, 1)

\* What the comparison call does: fails = "none" and the response text (a
\* sequence of characters), or the step of verify_visual_match that raises.
Outcome(fails, text) == [fails |-> fails, text |-> text]
VerifyFailures == {"open", "call", "text"}

\* Responses the comparison service can give: a bare score on each side of
\* the tiers, a number above 100, no number at all, and the failures.
SampleOutcomes ==
    {Outcome("none", t) :
        t \in {<<"0">>, <<"6", "4">>, <<"6", "5">>, <<"8", "4">>, <<"8", "5">>,
               <<"1", "0", "0">>, <<"1", "5", "0">>, <<"n", "o">>}}
    \cup {Outcome(f, <<>>) : f \in VerifyFailures}

\* The characters of the response texts of SpecVerify.
ProbeAlphabet == {"0", "1", "9", "x", "%"}

\* "200"; "2xx" = a success status other than 200; "status" = a status that
\* is no success; "raise" = the request raised.
FetchResults == {"200", "2xx", "status", "raise"}
SendResults == {"ok", "status", "transport"}
StoreResults == {"ok", "error"}

Call(op, arg, res) == [op |-> op, arg |-> arg, res |-> res]
Text(kind, body) == [kind |-> kind, body |-> body]

\* ------------------------------------------------------------ pure helpers
\* --- verify_visual_match (ai_engine.py 64-99)
DigitChars == <<"0", "1", "2", "3", "4", "5", "6", "7", "8", "9">>
IsDigit(c) == \E d \in DOMAIN DigitChars : DigitChars[d] = c
DigitValue(c) == (CHOOSE d \in DOMAIN DigitChars : DigitChars[d] = c) - 1

\* re.search: where the leftmost match of \d+ starts, 0 when there is none
MatchStart(t) ==
    IF \E i \in DOMAIN t : IsDigit(t[i])
    THEN CHOOSE i \in DOMAIN t :
             IsDigit(t[i]) /\ \A j \in 1..(i - 1) : ~IsDigit(t[j])
    ELSE 0

\* the pattern \d where \d+ is meant: the match is one digit long
MatchEnd_OneDigit(t, i) == i

\* \d+ is greedy: the match that starts at i ends where the digits end
RECURSIVE MatchEnd(_, _)
MatchEnd(t, i) ==
    IF i < Len(t) /\ IsDigit(t[i + 1]) THEN MatchEnd(t, i + 1) ELSE i

\* int() of a string of digits
RECURSIVE ParseInt(_)
ParseInt(ds) ==
    IF ds = <<>> THEN 0
    ELSE 10 * ParseInt(SubSeq(ds, 1, Len(ds) - 1)) + DigitValue(ds[Len(ds)])

\* lines 69-96: the body of the try; raised = an exception left it
VerifyBody(o) ==
    IF o.fails # "none" THEN [raised |-> TRUE, value |-> 0]
    ELSE LET i == MatchStart(o.text)
         IN [raised |-> FALSE,
             value |-> IF i = 0 THEN 0
                       ELSE ParseInt(SubSeq(o.text, i, MatchEnd(o.text, i)))]

\* lines 68-99: every exception of the body is caught and answered with 0
VerifyVisualMatch(o) ==
    LET body == VerifyBody(o)
    IN IF body.raised THEN [raised |-> FALSE, value |-> 0] ELSE body

\* The scores verify_visual_match returns on the sample responses.
ScoreValues == {VerifyVisualMatch(o).value : o \in SampleOutcomes}

NotReturned == [raised |-> FALSE, value |-> -1]
NoOutcome == Outcome("none", <<>>)
NoRequest == [kind |-> "none", entries |-> <<>>]

\* --- webhook_handler (main.py 272-288)
\* A request body: a page object of the WebhookEvent shape (lines 27-34),
\* entries[i] being the number of messaging events of entry i; a JSON body
\* with another object; or a body that is not JSON.
Body(kind, entries) == [kind |-> kind, entries |-> entries]
RequestBodies ==
    {Body(k, es) : k \in {"page", "other"},
                   es \in SeqsUpTo(0..MaxMessaging, MaxEntries)}
    \cup {Body("invalid", <<>>)}

\* one task for each entry of a page object, whatever its messaging holds
RECURSIVE TasksFor_PerEntry(_)
TasksFor_PerEntry(req) ==
    IF req.kind # "page" \/ req.entries = <<>> THEN <<>>
    ELSE TasksFor_PerEntry(Body("page", SubSeq(req.entries, 1,
                                               Len(req.entries) - 1)))
         \o <<<<Len(req.entries), 1>>>>

\* lines 278-281: the two loops; a task is named by the entry and the
\* position of its messaging event
RECURSIVE AddTasks(_, _)
AddTasks(entries, i) ==
    IF i > Len(entries) THEN <<>>
    ELSE [k \in 1..entries[i] |-> <<i, k>>] \o AddTasks(entries, i + 1)

\* lines 276-281: request.json() raises on a body that is not JSON, and only
\* a page object reaches the loops
TasksFor(req) == IF req.kind = "page" THEN AddTasks(req.entries, 1) ELSE <<>>

\* the handler answers 404 to a body that is no page object
AckStatus_NotFound(req) == IF req.kind = "other" THEN 404 ELSE StatusReceived

\* line 282: the response of the page branch; lines 285-288: the response of
\* the except branch, which catches the error of request.json() and the
\* HTTPException of line 284 alike
AckStatus(req) ==
    IF req.kind = "page" THEN StatusReceived ELSE StatusOnError

\* --- process_image (ai_engine.py 13-59)
\* lines 54-59: what process_image returns when anything in it raised
ZeroVector == [i \in 1..EmbeddingDim |-> 0]
ZeroDescriptor ==
    [siglip_embedding |-> ZeroVector, dino_embedding |-> ZeroVector]

\* lines 36-51: text-embedding-004 answers with one vector of EmbeddingDim
\* components, returned under both keys; only its dimension is kept here
ProcessImageDim(r) ==
    IF r = "zeros" THEN Len(ZeroDescriptor.siglip_embedding) ELSE EmbeddingDim

\* --- process_incoming_message and handle_image_search
\* the gate with the comparison off by one
CreditDenied_Strict(c) == c < 0

\* line 108: the credit gate denies on this value of users.credits
CreditDenied(c) == c <= 0

\* the deduction writing the value read back unchanged
DeductedCredits_None(c) == c

\* the deduction taking two credits
DeductedCredits_Two(c) == c - 2

\* line 136: the value the deduction writes, from the value the check read
DeductedCredits(c) == c - 1

\* the scan keeping the last attachment of type image
FirstImage_Last(a) ==
    IF \E i \in 1..Len(a) : a[i] = "image"
    THEN CHOOSE i \in 1..Len(a) :
             a[i] = "image" /\ \A j \in (i + 1)..Len(a) : a[j] # "image"
    ELSE 0

\* any first attachment taken for an image
FirstImage_Any(a) == IF a = <<>> THEN 0 ELSE 1

\* lines 129-130: index of the first attachment of type image, 0 if none
FirstImage(a) ==
    IF \E i \in 1..Len(a) : a[i] = "image"
    THEN CHOOSE i \in 1..Len(a) :
             a[i] = "image" /\ \A j \in 1..(i - 1) : a[j] # "image"
    ELSE 0

\* the lowest-ranked candidate taken for the top one
TopMatch_Last(ms) == ms[Len(ms)]

\* line 187: the candidate that is verified and replied with
TopMatch(ms) == ms[1]

\* the soft tier with its lower boundary left out
IsSoftMatch_Exclusive(v) == RejectBelow < v /\ v < SoftBelow

\* line 207 and line 214: the tiers of the decision policy
IsReject(v) == v < RejectBelow
IsSoftMatch(v) == RejectBelow <= v /\ v < SoftBelow

\* The fields of a product row as they are rendered into a reply.
ProductName(p) == 1000 + p
ProductPrice(p) == 2000 + p

\* lines 225-229: the keyword arguments handed to str.format
FormatArgs(p, conf) ==
    [k \in {"name", "price", "confidence"} |->
        CASE k = "name" -> ProductName(p)
          [] k = "price" -> ProductPrice(p)
          [] OTHER -> conf]

\* str.format raises KeyError on a placeholder that is no keyword argument
FormatRaises(tmpl, args) == \E i \in 1..Len(tmpl) : tmpl[i] \notin DOMAIN args

\* lines 224-232: the found-message, or the minimal one when format raises
ReplyText(tmpl, p, conf) ==
    LET args == FormatArgs(p, conf)
    IN IF FormatRaises(tmpl, args)
       THEN Text("found_minimal", <<ProductName(p)>>)
       ELSE Text("found", [i \in 1..Len(tmpl) |-> args[tmpl[i]]])

NotFoundText == Text("not_found", <<>>)
CaveatText == Text("caveat", <<>>)
DownloadFailedText == Text("download_failed", <<>>)
ErrorText == Text("error", <<>>)
ImageOf(p) == Text("image", <<p>>)

\* ------------------------------------------------------------------- Init
EventInit ==
    /\ pc = [e \in Events |-> "idle"]
    /\ atts = [e \in Events |-> <<>>]
    /\ shop = [e \in Events |-> NoShop]
    /\ credits = [e \in Events |-> 0]
    /\ img = [e \in Events |-> 0]
    /\ matches = [e \in Events |-> <<>>]
    /\ score = [e \in Events |-> 0]
    /\ calls = [e \in Events |-> <<>>]
    /\ outbox = [e \in Events |-> <<>>]

\* No webhook request and no call of verify_visual_match under way.
HookInit == request = NoRequest /\ tasks = <<>> /\ started = 0 /\ ack = 0
ProbeInit == response = NoOutcome /\ verdict = NotReturned

Init ==
    /\ shopRow \in ShopConfigs
    /\ balance \in 0..MaxBalance
    /\ balance0 = balance
    /\ EventInit
    /\ HookInit
    /\ ProbeInit

\* The gate reads no template and no send_image flag.
InitGate ==
    /\ shopRow \in {c \in ShopConfigs :
                       c.msgFound = DefaultTemplate /\ ~c.sendImage}
    /\ balance \in 0..MaxBalance
    /\ balance0 = balance
    /\ EventInit
    /\ HookInit
    /\ ProbeInit

\* ----------------------------------------------- process_incoming_message
\* lines 87-92: a background task starts on an event; an event without a
\* sender or recipient id returns at once.
Begin(e, lists) ==
    /\ pc[e] = "idle"
    /\ \E ids \in BOOLEAN, a \in lists :
          /\ atts' = [atts EXCEPT ![e] = a]
          /\ pc' = [pc EXCEPT ![e] = IF ids THEN "shop" ELSE "done"]
    /\ balance0' = IF \A o \in Events : pc[o] = "idle" THEN balance
                   ELSE balance0
    /\ UNCHANGED <<probeVars, shopRow, balance, shop, credits, img, calls,
                   searchVars>>

\* Spec: the events are handled one after the other; the tasks are alike, so
\* the next event is taken by the idle task with the lowest number.
Receive(e) ==
    /\ \A o \in Events : pc[o] = "idle" /\ e <= o
    /\ Begin(e, AttachmentLists)
    /\ UNCHANGED hookVars

\* SpecGate: events overlap.
ReceiveGate(e) ==
    /\ Begin(e, GateAttachmentLists)
    /\ UNCHANGED hookVars

\* lines 74-83 and 95-98: the shops row of the page, or None when the page
\* has no row or the query raises.
GetShopConfig(e) ==
    /\ pc[e] = "shop"
    /\ \E cfg \in {shopRow, NoShop} :
          /\ shop' = [shop EXCEPT ![e] = cfg]
          /\ pc' = [pc EXCEPT ![e] = IF cfg.found THEN "credits" ELSE "done"]
    /\ UNCHANGED <<hookVars, probeVars, shopRow,
                   balance, balance0, atts, credits, img, calls,
                   searchVars>>

\* lines 100-118: the credit check.
CheckCredits(e) ==
    /\ pc[e] = "credits"
    /\ IF shop[e].owner = "none"
       THEN /\ pc' = [pc EXCEPT ![e] = "token"]
            /\ UNCHANGED <<credits, calls>>
       ELSE \E r \in StoreResults :
               LET res == IF r = "error" THEN "error"
                          ELSE IF shop[e].owner = "user" THEN "ok"
                          ELSE "norow"
                   read == IF res = "ok" THEN balance ELSE 0
               IN /\ calls' = [calls EXCEPT
                                 ![e] = Append(@, Call("credit_read", read, res))]
                  /\ credits' = [credits EXCEPT ![e] = read]
                  /\ pc' = [pc EXCEPT ![e] =
                              IF res = "ok" /\ ~CreditDenied(read)
                              THEN "token" ELSE "done"]
    /\ UNCHANGED <<hookVars, probeVars, shopRow,
                   balance, balance0, atts, shop, img, searchVars>>

\* lines 120-126: decrypt_token raises on a token that is no valid ciphertext.
DecryptToken(e) ==
    /\ pc[e] = "token"
    /\ pc' = [pc EXCEPT ![e] = IF shop[e].tokenOk THEN "scan" ELSE "done"]
    /\ UNCHANGED <<hookVars, probeVars, shopRow,
                   balance, balance0, atts, shop, credits, img,
                   calls, searchVars>>

\* line 141: the call of handle_image_search is reached
Dispatch == Call("handle_image_search", 0, "ok")

\* lines 128-131, and line 141 for a shop without owner_id: the scan for the
\* first attachment of type image.
ScanAttachments(e) ==
    /\ pc[e] = "scan"
    /\ img' = [img EXCEPT ![e] = FirstImage(atts[e])]
    /\ pc' = [pc EXCEPT ![e] =
                IF FirstImage(atts[e]) = 0 THEN "done"
                ELSE IF shop[e].owner # "none" THEN "deduct"
                ELSE "download"]
    /\ calls' = [calls EXCEPT ![e] =
                   IF FirstImage(atts[e]) # 0 /\ shop[e].owner = "none"
                   THEN Append(@, Dispatch) ELSE @]
    /\ UNCHANGED <<hookVars, probeVars, shopRow,
                   balance, balance0, atts, shop, credits,
                   searchVars>>

\* lines 133-141: the deduction, a write of credits - 1; a failure of the
\* write is logged and the event goes on to handle_image_search.
DeductCredit(e) ==
    /\ pc[e] = "deduct"
    /\ \E r \in StoreResults :
          /\ calls' = [calls EXCEPT ![e] =
                @ \o <<Call("credit_write", DeductedCredits(credits[e]), r),
                       Dispatch>>]
          /\ balance' = IF r = "ok" THEN DeductedCredits(credits[e])
                        ELSE balance
    /\ pc' = [pc EXCEPT ![e] = "download"]
    /\ UNCHANGED <<hookVars, probeVars, shopRow,
                   balance0, atts, shop, credits, img, searchVars>>

\* lines 141-142, in SpecGate: handle_image_search runs and returns; it
\* reads and writes no users row.
ImageSearchReturns(e) ==
    /\ pc[e] = "download"
    /\ pc' = [pc EXCEPT ![e] = "done"]
    /\ UNCHANGED <<hookVars, probeVars, shopRow,
                   balance, balance0, atts, shop, credits, img,
                   calls, searchVars>>

\* ---------------------------------------------------- handle_image_search
\* lines 38-50 and 52-72: one send.  An error status is caught and logged in
\* the send; a transport error (httpx.RequestError) is not caught there and
\* is raised to the caller: inside the try of handle_image_search it reaches
\* the handler of line 243.
SendNext(r, next) == IF r = "transport" THEN "error" ELSE next

Send(e, text, next) ==
    \E r \in SendResults :
        /\ outbox' = [outbox EXCEPT ![e] = Append(@, [text |-> text, res |-> r])]
        /\ pc' = [pc EXCEPT ![e] = SendNext(r, next)]

\* a failed fetch returning without the reply of line 154
DownloadNext_Silent(r) ==
    CASE r = "200" -> "extract"
      [] r \in {"2xx", "status"} -> "done"
      [] OTHER -> "error"

\* lines 151-156: where the fetch of the source image leads
DownloadNext(r) ==
    CASE r = "200" -> "extract"
      [] r \in {"2xx", "status"} -> "dlfail"
      [] OTHER -> "error"

\* lines 151-153: the fetch of the source image
Download(e) ==
    /\ pc[e] = "download"
    /\ \E r \in FetchResults :
          /\ calls' = [calls EXCEPT ![e] = Append(@, Call("get_source", 0, r))]
          /\ pc' = [pc EXCEPT ![e] = DownloadNext(r)]
    /\ UNCHANGED <<hookVars, probeVars, shopRow,
                   balance, balance0, atts, shop, credits, img,
                   searchVars>>

\* lines 153-155: the reply to a fetch that did not return 200
SendDownloadFailed(e) ==
    /\ pc[e] = "dlfail"
    /\ Send(e, DownloadFailedText, "done")
    /\ UNCHANGED <<hookVars, probeVars, shopRow,
                   balance, balance0, atts, shop, credits, img,
                   calls, matches, score>>

\* lines 165-169 (ai_engine.py 13-59): process_image returns the embedding,
\* or zero vectors when anything in it fails; it never raises.  The call is
\* recorded with the dimension of the vectors it returned.
ProcessImage(e) ==
    /\ pc[e] = "extract"
    /\ \E r \in {"ok", "zeros"} :
          calls' = [calls EXCEPT ![e] =
                       Append(@, Call("process_image", ProcessImageDim(r), r))]
    /\ pc' = [pc EXCEPT ![e] = "match"]
    /\ UNCHANGED <<hookVars, probeVars, shopRow,
                   balance, balance0, atts, shop, credits, img,
                   searchVars>>

\* lines 173-186: the retrieval query; int(page_id) or the rpc may raise.
MatchProducts(e) ==
    /\ pc[e] = "match"
    /\ \/ /\ calls' = [calls EXCEPT ![e] =
                          Append(@, Call("match_products", 0, "raise"))]
          /\ pc' = [pc EXCEPT ![e] = "error"]
          /\ UNCHANGED matches
       \/ \E n \in 0..MaxMatches :
             /\ calls' = [calls EXCEPT ![e] =
                             Append(@, Call("match_products", n, "ok"))]
             /\ matches' = [matches EXCEPT ![e] = [i \in 1..n |-> i]]
             /\ pc' = [pc EXCEPT ![e] = IF n > 0 THEN "candidate" ELSE "nomatch"]
    /\ UNCHANGED <<hookVars, probeVars, shopRow,
                   balance, balance0, atts, shop, credits, img,
                   score, outbox>>

\* lines 187-202: the fetch of the top candidate's stored image; a status
\* other than 200 or a raised error leaves verification_score at 0.
CandidateDownload(e) ==
    /\ pc[e] = "candidate"
    /\ \E r \in FetchResults :
          /\ calls' = [calls EXCEPT ![e] =
                Append(@, Call("get_candidate", TopMatch(matches[e]), r))]
          /\ pc' = [pc EXCEPT ![e] = IF r = "200" THEN "verify" ELSE "decide"]
    /\ score' = [score EXCEPT ![e] = 0]
    /\ UNCHANGED <<hookVars, probeVars, shopRow,
                   balance, balance0, atts, shop, credits, img,
                   matches, outbox>>

\* line 200 (ai_engine.py 64-99): the call of verify_visual_match; an
\* exception of it would be caught at line 201 with the score left at 0.
Verify(e) ==
    /\ pc[e] = "verify"
    /\ \E o \in SampleOutcomes :
          LET got == VerifyVisualMatch(o)
          IN score' = [score EXCEPT ![e] = IF got.raised THEN 0 ELSE got.value]
    /\ calls' = [calls EXCEPT ![e] =
                    Append(@, Call("verify", TopMatch(matches[e]), "ok"))]
    /\ pc' = [pc EXCEPT ![e] = "decide"]
    /\ UNCHANGED <<hookVars, probeVars, shopRow,
                   balance, balance0, atts, shop, credits, img,
                   matches, outbox>>

\* lines 207-211: Reject
Reject(e) ==
    /\ pc[e] = "decide"
    /\ IsReject(score[e])
    /\ Send(e, NotFoundText, "done")
    /\ UNCHANGED <<hookVars, probeVars, shopRow,
                   balance, balance0, atts, shop, credits, img,
                   calls, matches, score>>

\* lines 214-215: SoftMatch sends the caveat first
SoftMatch(e) ==
    /\ pc[e] = "decide"
    /\ ~IsReject(score[e])
    /\ IsSoftMatch(score[e])
    /\ Send(e, CaveatText, "found")
    /\ UNCHANGED <<hookVars, probeVars, shopRow,
                   balance, balance0, atts, shop, credits, img,
                   calls, matches, score>>

\* lines 207-216: ConfidentMatch sends no caveat
ConfidentMatch(e) ==
    /\ pc[e] = "decide"
    /\ ~IsReject(score[e])
    /\ ~IsSoftMatch(score[e])
    /\ pc' = [pc EXCEPT ![e] = "found"]
    /\ UNCHANGED <<hookVars, probeVars, shopRow,
                   balance, balance0, atts, shop, credits, img,
                   calls, searchVars>>

\* lines 217-237: the found-message
SendFound(e) ==
    /\ pc[e] = "found"
    /\ Send(e, ReplyText(shop[e].msgFound, TopMatch(matches[e]), score[e]),
            IF shop[e].sendImage THEN "image" ELSE "done")
    /\ UNCHANGED <<hookVars, probeVars, shopRow,
                   balance, balance0, atts, shop, credits, img,
                   calls, matches, score>>

\* lines 237-238: the product image
SendProductImage(e) ==
    /\ pc[e] = "image"
    /\ Send(e, ImageOf(TopMatch(matches[e])), "done")
    /\ UNCHANGED <<hookVars, probeVars, shopRow,
                   balance, balance0, atts, shop, credits, img,
                   calls, matches, score>>

\* lines 239-241: no candidate
NoMatch(e) ==
    /\ pc[e] = "nomatch"
    /\ Send(e, NotFoundText, "done")
    /\ UNCHANGED <<hookVars, probeVars, shopRow,
                   balance, balance0, atts, shop, credits, img,
                   calls, matches, score>>

\* lines 243-247: the outermost handler sends the generic error reply; a
\* transport error of this send leaves handle_image_search as an exception.
ErrorReply(e) ==
    /\ pc[e] = "error"
    /\ \E r \in SendResults :
          outbox' = [outbox EXCEPT ![e] = Append(@, [text |-> ErrorText, res |-> r])]
    /\ pc' = [pc EXCEPT ![e] = "done"]
    /\ UNCHANGED <<hookVars, probeVars, shopRow,
                   balance, balance0, atts, shop, credits, img,
                   calls, matches, score>>

\* The task is over and the event is discarded.
Finish(e) ==
    /\ pc[e] = "done"
    /\ pc' = [pc EXCEPT ![e] = "idle"]
    /\ atts' = [atts EXCEPT ![e] = <<>>]
    /\ shop' = [shop EXCEPT ![e] = NoShop]
    /\ credits' = [credits EXCEPT ![e] = 0]
    /\ img' = [img EXCEPT ![e] = 0]
    /\ matches' = [matches EXCEPT ![e] = <<>>]
    /\ score' = [score EXCEPT ![e] = 0]
    /\ calls' = [calls EXCEPT ![e] = <<>>]
    /\ outbox' = [outbox EXCEPT ![e] = <<>>]
    /\ UNCHANGED <<hookVars, probeVars, shopRow, balance, balance0>>

\* --------------------------------------------------------- specifications
Next ==
    \E e \in Events :
        \/ Receive(e)
        \/ GetShopConfig(e)
        \/ CheckCredits(e)
        \/ DecryptToken(e)
        \/ ScanAttachments(e)
        \/ DeductCredit(e)
        \/ Download(e)
        \/ SendDownloadFailed(e)
        \/ ProcessImage(e)
        \/ MatchProducts(e)
        \/ CandidateDownload(e)
        \/ Verify(e)
        \/ Reject(e)
        \/ SoftMatch(e)
        \/ ConfidentMatch(e)
        \/ SendFound(e)
        \/ SendProductImage(e)
        \/ NoMatch(e)
        \/ ErrorReply(e)
        \/ Finish(e)

Spec == Init /\ [][Next]_vars

NextGate ==
    \E e \in Events :
        \/ ReceiveGate(e)
        \/ GetShopConfig(e)
        \/ CheckCredits(e)
        \/ DecryptToken(e)
        \/ ScanAttachments(e)
        \/ DeductCredit(e)
        \/ ImageSearchReturns(e)

SpecGate == InitGate /\ [][NextGate]_vars

\* Every task the event loop has started keeps running: each remote call
\* returns or raises (httpx and the store client time out).
EventStep(e) ==
    \/ GetShopConfig(e) \/ CheckCredits(e) \/ DecryptToken(e)
    \/ ScanAttachments(e) \/ DeductCredit(e) \/ Download(e)
    \/ SendDownloadFailed(e) \/ ProcessImage(e) \/ MatchProducts(e)
    \/ CandidateDownload(e) \/ Verify(e) \/ Reject(e) \/ SoftMatch(e)
    \/ ConfidentMatch(e) \/ SendFound(e) \/ SendProductImage(e)
    \/ NoMatch(e) \/ ErrorReply(e)

FairSpec == Spec /\ \A e \in Events : WF_vars(EventStep(e))

\* --- the webhook: one request, then the tasks it enqueued.
\* lines 272-288: the whole of webhook_handler
WebhookHandler ==
    /\ request = NoRequest
    /\ \E req \in RequestBodies :
          /\ request' = req
          /\ tasks' = TasksFor(req)
          /\ ack' = AckStatus(req)
    /\ UNCHANGED <<started, probeVars, shopRow, balance, balance0, pc, atts,
                   shop, credits, img, calls, searchVars>>

\* line 281: background_tasks runs its tasks once the response has been
\* sent, in the order they were added, each after the one before returned
StartTask(e) ==
    /\ ack # 0
    /\ started < Len(tasks)
    /\ \A o \in Events : pc[o] = "idle" /\ e <= o
    /\ Begin(e, GateAttachmentLists)
    /\ started' = started + 1
    /\ UNCHANGED <<request, tasks, ack>>

NextWebhook ==
    \/ WebhookHandler
    \/ \E e \in Events :
          \/ StartTask(e)
          \/ GetShopConfig(e)
          \/ CheckCredits(e)
          \/ DecryptToken(e)
          \/ ScanAttachments(e)
          \/ DeductCredit(e)
          \/ ImageSearchReturns(e)
          \/ Finish(e)

SpecWebhook == InitGate /\ [][NextWebhook]_vars

\* --- verify_visual_match on its own: one call, on any response text of up
\* to MaxTextLen characters of ProbeAlphabet or on a failure of the call.
InitVerify ==
    /\ shopRow = NoShop
    /\ balance = 0
    /\ balance0 = 0
    /\ EventInit
    /\ HookInit
    /\ response \in
          {Outcome("none", t) : t \in SeqsUpTo(ProbeAlphabet, MaxTextLen)}
          \cup {Outcome(f, <<>>) : f \in VerifyFailures}
    /\ verdict = NotReturned

RunVerify ==
    /\ verdict = NotReturned
    /\ verdict' = VerifyVisualMatch(response)
    /\ UNCHANGED <<hookVars, response, shopRow, balance, balance0, pc, atts,
                   shop, credits, img, calls, searchVars>>

NextVerify == RunVerify

SpecVerify == InitVerify /\ [][NextVerify]_vars

\* ------------------------------------------------- observations of a run
CallsOf(e, op) == {i \in DOMAIN calls[e] : calls[e][i].op = op}
HasCall(e, op) == CallsOf(e, op) # {}
Dispatched(e) == HasCall(e, "handle_image_search")
Texts(e) == [i \in DOMAIN outbox[e] |-> outbox[e][i].text]
HasText(e, t) == \E i \in DOMAIN outbox[e] : outbox[e][i].text = t

\* the credit check read a balance <= 0 or found no users row
Denied(e) ==
    \E i \in CallsOf(e, "credit_read") :
        \/ calls[e][i].res = "norow"
        \/ calls[e][i].res = "ok" /\ calls[e][i].arg <= 0

\* the credit check found a users row with a balance >= 1
PassedCheck(e) ==
    \E i \in CallsOf(e, "credit_read") :
        calls[e][i].res = "ok" /\ calls[e][i].arg >= 1

\* the retrieval returned an empty candidate list
EmptyRetrieval(e) ==
    \E i \in CallsOf(e, "match_products") :
        calls[e][i].res = "ok" /\ calls[e][i].arg = 0

AllDone == \A e \in Events : pc[e] = "done"

\* the events of the owner that reached the call of handle_image_search
OwnerDispatched == {e \in Events : Dispatched(e) /\ shop[e].owner = "user"}

\* ------------------------------------------------------------------ claims

\* C1: for an event whose retrieval returned candidates and whose
\* verification score is v, the texts sent are: only msgNotFound when v < 65;
\* the caveat, then the found-message with confidence v, when 65 <= v < 85;
\* the found-message with confidence v and no caveat when v >= 85.
C1_TierByScore ==
    \A e \in Events :
        (pc[e] = "done" /\ matches[e] # <<>>) =>
            LET v == score[e]
                t == Texts(e)
                found == ReplyText(shop[e].msgFound, matches[e][1], v)
            IN /\ (v < 65) => t = <<NotFoundText>>
               /\ (65 <= v /\ v < 85) =>
                     Len(t) >= 2 /\ t[1] = CaveatText /\ t[2] = found
               /\ (v >= 85) =>
                     Len(t) >= 1 /\ t[1] = found /\ ~HasText(e, CaveatText)

C3_DeniedIsSilent ==
    \A e \in Events :
        Denied(e) =>
            /\ pc[e] = "done"
            /\ outbox[e] = <<>>
            /\ Len(calls[e]) = 1
            /\ ~HasCall(e, "credit_write")

\* C3 witness: an event with a decryptable token and an image attachment was
\* stopped by a balance of 0.
C3_Witness ==
    \E e \in Events :
        /\ pc[e] = "done"
        /\ shop[e].tokenOk
        /\ FirstImage(atts[e]) # 0
        /\ \E i \in CallsOf(e, "credit_read") :
              calls[e][i].res = "ok" /\ calls[e][i].arg = 0

\* C4: handle_image_search is called only for an event whose credit check
\* found a users row with a balance >= 1.
C4_DispatchOnlyAfterPassedCheck ==
    \A e \in Events : Dispatched(e) => PassedCheck(e)

\* C5: the stored balance is never negative.
C5_BalanceNonNegative == balance >= 0

\* C5 witness: two overlapping events of the owner both wrote the balance and
\* it stands at 0.
C5_Witness ==
    /\ balance = 0
    /\ \E a, b \in Events :
          /\ a # b
          /\ \A e \in {a, b} :
                \E w \in CallsOf(e, "credit_write") : calls[e][w].res = "ok"

\* C6: an event whose retrieval returned no candidate ends with exactly one
\* send, msgNotFound, with no candidate fetch, no verification, no product
\* image, and with its credit write issued.
C6_EmptyRetrievalRepliesNotFound ==
    \A e \in Events :
        (pc[e] = "done" /\ EmptyRetrieval(e)) =>
            /\ Texts(e) = <<NotFoundText>>
            /\ ~HasCall(e, "get_candidate")
            /\ ~HasCall(e, "verify")
            /\ (shop[e].owner = "user" => HasCall(e, "credit_write"))

\* C7: an event makes at most one candidate fetch and at most one call of
\* verify_visual_match, both only with a non-empty candidate list and only
\* for its first candidate.
C7_VerifyTopCandidateOnce ==
    \A e \in Events :
        /\ Cardinality(CallsOf(e, "verify")) <= 1
        /\ Cardinality(CallsOf(e, "get_candidate")) <= 1
        /\ \A i \in CallsOf(e, "verify") \cup CallsOf(e, "get_candidate") :
              /\ matches[e] # <<>>
              /\ calls[e][i].arg = matches[e][1]

\* C7 witness: an event with two candidates verified one and has ended.
C7_Witness ==
    \E e \in Events :
        /\ pc[e] = "done"
        /\ Len(matches[e]) >= 2
        /\ HasCall(e, "verify")

\* C8: an event in which the outermost handler of handle_image_search ran
\* (it sends the generic error reply) has sent that reply and nothing else.
C8_HandlerSendsOnlyErrorReply ==
    \A e \in Events :
        (pc[e] = "done" /\ HasText(e, ErrorText)) => Texts(e) = <<ErrorText>>

\* C9 (as claimed): an event with an image attachment, of a known shop, that
\* passed the credit check does not end without a send.
C9_PassedCheckGetsReply ==
    \A e \in Events :
        (/\ pc[e] = "done"
         /\ FirstImage(atts[e]) # 0
         /\ shop[e].found
         /\ PassedCheck(e)) => outbox[e] # <<>>

\* C9 (amended): an event with an image attachment, of a known shop, that
\* passed the credit check and whose page token decrypted (it stands at the
\* attachment scan) eventually makes a send; and an event of a known shop
\* with an image attachment ends without a send only when the credit check
\* denied or failed or the token did not decrypt.
C9_Owed(e) == pc[e] = "scan" /\ FirstImage(atts[e]) # 0
C9_Silent(e) ==
    /\ pc[e] = "done"
    /\ outbox[e] = <<>>
    /\ shop[e].found
    /\ FirstImage(atts[e]) # 0
C9_ReplyOnceTokenDecrypted ==
    /\ \A e \in Events : C9_Owed(e) ~> (outbox[e] # <<>>)
    /\ [](\A e \in Events :
             C9_Silent(e) =>
                \/ ~shop[e].tokenOk
                \/ \E i \in CallsOf(e, "credit_read") :
                      calls[e][i].res # "ok" \/ calls[e][i].arg <= 0)

\* C9 witness: an event that passed the credit check with a decrypted token
\* ended after the fetch of its image failed, with one send.
C9_Witness ==
    \E e \in Events :
        /\ pc[e] = "done"
        /\ PassedCheck(e)
        /\ \E i \in CallsOf(e, "get_source") : calls[e][i].res = "status"
        /\ Len(outbox[e]) = 1

\* C10: a send that failed is followed neither by the generic error reply
\* nor by a second send of the same text.
C10_FailedSendIsAbsorbed ==
    \A e \in Events :
        \A i \in DOMAIN outbox[e] :
            (outbox[e][i].res # "ok" /\ i < Len(outbox[e])) =>
                /\ outbox[e][i + 1].text # ErrorText
                /\ outbox[e][i + 1].text # outbox[e][i].text

\* the result of the event's fetch of the source image is in rs
SourceFetch(e, rs) ==
    \E i \in CallsOf(e, "get_source") : calls[e][i].res \in rs

\* C11: an event whose source fetch returned a status that is no success, or
\* raised, ends with process_image, the retrieval and the verification never
\* called and with exactly one send, the download-error text; a fetch that
\* returned a success status is not answered with the download-error text
\* and goes on to process_image.
C11_FailedFetchRepliesDownloadError ==
    \A e \in Events :
        pc[e] = "done" =>
            /\ SourceFetch(e, {"status", "raise"}) =>
                  /\ ~HasCall(e, "process_image")
                  /\ ~HasCall(e, "match_products")
                  /\ ~HasCall(e, "verify")
                  /\ Texts(e) = <<DownloadFailedText>>
            /\ SourceFetch(e, {"200", "2xx"}) =>
                  /\ ~HasText(e, DownloadFailedText)
                  /\ HasCall(e, "process_image")

\* the result of the event's fetch of the candidate image is in rs
CandidateFetch(e, rs) ==
    \E i \in CallsOf(e, "get_candidate") : calls[e][i].res \in rs

\* C12: an event whose fetch of the top candidate's image returned a status
\* that is no success, or raised, ends with verify_visual_match not called,
\* a score of 0 and msgNotFound as its only send.
C12_FailedCandidateFetchRejects ==
    \A e \in Events :
        (pc[e] = "done" /\ CandidateFetch(e, {"status", "raise"})) =>
            /\ ~HasCall(e, "verify")
            /\ score[e] = 0
            /\ Texts(e) = <<NotFoundText>>

\* every send of the event was delivered
AllSendsOk(e) == \A i \in DOMAIN outbox[e] : outbox[e][i].res = "ok"

\* C13: for an event with candidates and no failed send, the sends are, in
\* order: the caveat iff 65 <= score < 85, the found-message, the product
\* image iff sendImage; with a score < 65 no product image is sent.
C13_OrderOfSends ==
    \A e \in Events :
        (pc[e] = "done" /\ matches[e] # <<>> /\ AllSendsOk(e)) =>
            LET v == score[e]
                top == matches[e][1]
                caveat == IF 65 <= v /\ v < 85 THEN <<CaveatText>> ELSE <<>>
                found == <<ReplyText(shop[e].msgFound, top, v)>>
                image == IF shop[e].sendImage THEN <<ImageOf(top)>> ELSE <<>>
            IN /\ (v >= 65) => Texts(e) = caveat \o found \o image
               /\ (v < 65) => \A i \in DOMAIN outbox[e] :
                                 outbox[e][i].text.kind # "image"

\* C13 witness: a soft match of a shop with sendImage ended with three
\* delivered sends.
C13_Witness ==
    \E e \in Events :
        /\ pc[e] = "done"
        /\ shop[e].sendImage
        /\ 65 <= score[e] /\ score[e] < 85
        /\ AllSendsOk(e)
        /\ Len(outbox[e]) = 3

\* C14: an event reaches the call of handle_image_search at most once, with
\* the first attachment of type image in list order, makes at most one fetch
\* of a source image and at most one credit write.
C14_FirstImageOnly ==
    \A e \in Events :
        /\ Cardinality(CallsOf(e, "handle_image_search")) <= 1
        /\ Cardinality(CallsOf(e, "get_source")) <= 1
        /\ Cardinality(CallsOf(e, "credit_write")) <= 1
        /\ Dispatched(e) =>
              /\ img[e] \in DOMAIN atts[e]
              /\ atts[e][img[e]] = "image"
              /\ \A j \in 1..(img[e] - 1) : atts[e][j] # "image"

\* C14 witness: an event with two image attachments was dispatched and ended.
C14_Witness ==
    \E e \in Events :
        /\ pc[e] = "done"
        /\ Dispatched(e)
        /\ atts[e] = <<"image", "image">>
        /\ Len(outbox[e]) = 1

\* C15: the score the decision tiers read is an integer from 0 to 100,
\* whatever text the comparison service answered and whatever failed.
C15_ScoreWithinRange == \A e \in Events : score[e] \in 0..100

\* The digits of t from position i to position j, read as a decimal number.
RECURSIVE Decimal(_, _, _)
Decimal(t, i, j) ==
    IF i > j THEN 0
    ELSE DigitValue(t[i]) * 10 ^ (j - i) + Decimal(t, i + 1, j)

\* C16: verify_visual_match returns and never raises; on a failure of the
\* call or a text without digits it returns 0, and otherwise the number
\* written by the leftmost maximal run of digits of the text.
C16_ReturnsFirstInteger ==
    verdict # NotReturned =>
        LET t == response.text
            digits == {i \in DOMAIN t : IsDigit(t[i])}
        IN /\ ~verdict.raised
           /\ (response.fails # "none" \/ digits = {}) => verdict.value = 0
           /\ (response.fails = "none" /\ digits # {}) =>
                 \E i \in digits, j \in digits :
                     /\ \A k \in digits : i <= k
                     /\ \A k \in i..j : k \in digits
                     /\ (j + 1) \notin digits
                     /\ verdict.value = Decimal(t, i, j)

\* C16 witness: a text with a non-digit before a run of two digits has been
\* answered with the number the run writes.
C16_Witness ==
    /\ response.fails = "none"
    /\ Len(response.text) = 3
    /\ ~IsDigit(response.text[1])
    /\ IsDigit(response.text[2]) /\ IsDigit(response.text[3])
    /\ verdict.value = Decimal(response.text, 2, 3)
    /\ verdict.value > 9

\* the event whose process_image failed and answered with zero vectors
ExtractionFailed(e) ==
    \E i \in CallsOf(e, "process_image") : calls[e][i].res = "zeros"

\* C17: a failure inside process_image does not abort the event: the vectors
\* returned are both EmbeddingDim zeros, the retrieval query is issued, and
\* when the retrieval is empty the event ends with msgNotFound as its only
\* reply and without the generic error reply.
C17_ExtractionFailureEndsNotFound ==
    /\ \A k \in DOMAIN ZeroDescriptor :
           /\ Len(ZeroDescriptor[k]) = 768
           /\ \A i \in DOMAIN ZeroDescriptor[k] : ZeroDescriptor[k][i] = 0
    /\ \A e \in Events :
           (pc[e] = "done" /\ ExtractionFailed(e)) =>
               /\ \A i \in CallsOf(e, "process_image") : calls[e][i].arg = 768
               /\ HasCall(e, "match_products")
               /\ EmptyRetrieval(e) =>
                     /\ HasText(e, NotFoundText)
                     /\ ~HasText(e, ErrorText)

\* the event formatted a found-message and handed it to the send
FoundMessageBuilt(e) ==
    \E i \in DOMAIN outbox[e] :
        outbox[e][i].text.kind \in {"found", "found_minimal"}

\* C18: when msgFound names a placeholder other than name, price and
\* confidence, the event that built its found-message has sent the minimal
\* message with the candidate's name, then the image when sendImage is set,
\* and has sent no generic error reply.
C18_UnknownPlaceholderFallsBack ==
    \A e \in Events :
        (/\ pc[e] = "done"
         /\ FoundMessageBuilt(e)
         /\ \E i \in DOMAIN shop[e].msgFound :
               shop[e].msgFound[i] \notin {"name", "price", "confidence"}) =>
            LET top == TopMatch(matches[e])
            IN /\ HasText(e, Text("found_minimal", <<ProductName(top)>>))
               /\ \A i \in DOMAIN outbox[e] : outbox[e][i].text.kind # "found"
               /\ shop[e].sendImage => HasText(e, ImageOf(top))
               /\ ~HasText(e, ErrorText)

\* the balance the event read at its credit check
ReadAtCheck(e, c) ==
    \E i \in CallsOf(e, "credit_read") :
        calls[e][i].res = "ok" /\ calls[e][i].arg = c

\* C19: the credit check and the credit write are separate steps.  Every
\* dispatched event of the owner passed its own check on a balance of at
\* least 1, and more events than the initial balance are dispatched only
\* when two of them read the same balance, each before the other's write
\* was visible to it.
C19_OverspendByInterleavedChecks ==
    /\ \A e \in OwnerDispatched : \E c \in 1..MaxBalance : ReadAtCheck(e, c)
    /\ Cardinality(OwnerDispatched) > balance0 =>
          \E e1 \in OwnerDispatched, e2 \in OwnerDispatched :
              /\ e1 # e2
              /\ \E c \in 1..MaxBalance :
                    ReadAtCheck(e1, c) /\ ReadAtCheck(e2, c)

\* C19 witness: with a stored balance of 1, two overlapping events both read
\* 1 at their checks, both wrote 0 and both reached handle_image_search.
C19_Witness ==
    /\ balance0 = 1
    /\ balance = 0
    /\ \E e1 \in OwnerDispatched, e2 \in OwnerDispatched :
          /\ e1 # e2
          /\ ReadAtCheck(e1, 1) /\ ReadAtCheck(e2, 1)
          /\ \A e \in {e1, e2} :
                \E i \in CallsOf(e, "credit_write") :
                    calls[e][i].res = "ok" /\ calls[e][i].arg = 0
    /\ Cardinality(OwnerDispatched) > balance0

\* the messaging events of the request: entry and position in the entry
MessagingEvents ==
    {ev \in (DOMAIN request.entries) \X (1..MaxMessaging) :
        ev[2] <= request.entries[ev[1]]}

\* C20: webhook_handler enqueues exactly one task for each messaging event
\* of a page-object request and none for any other request; no step of
\* process_incoming_message runs before the response; and the response has
\* status 200 for every request, whatever the events' processing does.
C20_AckBeforeProcessing ==
    /\ request = NoRequest =>
          /\ ack = 0 /\ tasks = <<>> /\ started = 0
          /\ \A e \in Events : pc[e] = "idle" /\ calls[e] = <<>>
    /\ request # NoRequest =>
          /\ ack = 200
          /\ started <= Len(tasks)
          /\ IF request.kind = "page"
             THEN /\ \A ev \in MessagingEvents :
                        Cardinality({i \in DOMAIN tasks : tasks[i] = ev}) = 1
                  /\ \A i \in DOMAIN tasks : tasks[i] \in MessagingEvents
             ELSE tasks = <<>>

\* C20 witness: a page object with two entries of one messaging event each
\* was answered, both tasks were started after it and the second one was
\* dispatched to handle_image_search and ended.
C20_Witness ==
    /\ request = Body("page", <<1, 1>>)
    /\ ack = 200
    /\ Len(tasks) = 2
    /\ started = 2
    /\ \E e \in Events : pc[e] = "done" /\ Dispatched(e)

\* the calls of handle_image_search that fetch an image or ask an AI service
WorkOps ==
    {"get_source", "process_image", "match_products", "get_candidate",
     "verify"}

\* C21: the credit write of an event comes after its credit check and before
\* the source download and every AI call, an event of an owner that reached
\* any of those has issued its write, and there is no second write: from a
\* successful write on, whatever the rest of the event does (download
\* failure, reject, empty retrieval, exception), the stored balance stays
\* the balance the check read less one.
C21_DeductionFirstAndKept ==
    \A e \in Events :
        /\ Cardinality(CallsOf(e, "credit_write")) <= 1
        /\ \A w \in CallsOf(e, "credit_write") :
              /\ \E r \in CallsOf(e, "credit_read") :
                    /\ r < w
                    /\ calls[e][r].res = "ok"
                    /\ calls[e][w].res = "ok" => balance = calls[e][r].arg - 1
              /\ \A i \in DOMAIN calls[e] : calls[e][i].op \in WorkOps => w < i
        /\ (shop[e].owner = "user"
              /\ \E i \in DOMAIN calls[e] : calls[e][i].op \in WorkOps) =>
              HasCall(e, "credit_write")

\* C21 witness: an event whose credit write succeeded and whose source
\* download then failed has ended with the credit still deducted.
C21_Witness ==
    \E e \in Events :
        /\ pc[e] = "done"
        /\ \E w \in CallsOf(e, "credit_write") : calls[e][w].res = "ok"
        /\ \E i \in CallsOf(e, "get_source") : calls[e][i].res = "status"
        /\ HasText(e, DownloadFailedText)
        /\ balance0 >= 1
        /\ balance = balance0 - 1

\* C22: no step raises the stored balance: every credit write, in every
\* interleaving of overlapping events of one owner, stores a value that is
\* at most the value stored just before it.
C22_BalanceNeverRises == [][balance' <= balance]_vars

\* the shop lookup of the event returned nothing, or raised
ShopUnknown(e) == pc[e] \notin {"idle", "shop"} /\ ~shop[e].found

\* the message of the event has no attachment of type image
NoImageAttachment(e) ==
    pc[e] # "idle" /\ \A i \in DOMAIN atts[e] : atts[e][i] # "image"

\* C23: an event of a page without shop config (no row, or a failed
\* lookup) and an event without an attachment of type image are silent: no
\* message is sent, no credit write is issued, handle_image_search is not
\* called and no download, extraction, retrieval or verification is made.
C23_UnknownShopOrNoImageIsSilent ==
    \A e \in Events :
        (ShopUnknown(e) \/ NoImageAttachment(e)) =>
            /\ outbox[e] = <<>>
            /\ ~HasCall(e, "credit_write")
            /\ ~Dispatched(e)
            /\ \A i \in DOMAIN calls[e] : calls[e][i].op \notin WorkOps
            /\ pc[e] \in {"shop", "credits", "token", "scan", "done"}

\* C23 witness: an event with attachments, none of them an image, of a
\* known shop whose owner has credit, was scanned and has ended in silence.
C23_Witness ==
    \E e \in Events :
        /\ pc[e] = "done"
        /\ shop[e].found /\ shop[e].tokenOk
        /\ PassedCheck(e)
        /\ Len(atts[e]) = 2
        /\ NoImageAttachment(e)
        /\ outbox[e] = <<>>

\* a call of the event to the credit store, the lookup or the write, failed
StoreFailed(e) ==
    \E i \in CallsOf(e, "credit_read") \cup CallsOf(e, "credit_write") :
        calls[e][i].res = "error"

\* C24: a failure of the credit store, on the lookup or on the write, does
\* not block the event: an event with an image attachment, of a known shop
\* with a valid token, that met such a failure was still handed to
\* handle_image_search and a reply was sent.
C24_StoreFailureDoesNotBlock ==
    \A e \in Events :
        (/\ pc[e] = "done"
         /\ shop[e].found /\ shop[e].tokenOk
         /\ \E i \in DOMAIN atts[e] : atts[e][i] = "image"
         /\ StoreFailed(e)) =>
            /\ Dispatched(e)
            /\ outbox[e] # <<>>

====
